---- MODULE Spec2Model ----
(***************************************************************************)
(* asmdec: width-truncating register arithmetic (src/asmdec/asmdec.py).    *)
(*                                                                         *)
(* Python integers are unbounded, and the masks of _get_size reach 64      *)
(* bits, so an integer is modelled as an arbitrary-precision two's         *)
(* complement number: its bits, least significant first, above which the   *)
(* sign repeats for ever.  The representation is canonical (no redundant   *)
(* sign bit on top), so equality of records is equality of integers.       *)
(* A Python value is a record [kind, neg, bits]: kind "int" for an         *)
(* integer, "None" for None, and the exception's name for a call that      *)
(* raised instead of returning.                                            *)
(***************************************************************************)
EXTENDS Integers, Sequences, FiniteSets, TLC

VARIABLES arg1, arg2, argsize, fn, prev, ret

vars == <<arg1, arg2, argsize, fn, prev, ret>>

-----------------------------------------------------------------------------
(* Python's int *)

MkInt(neg, bits) == [kind |-> "int", neg |-> neg, bits |-> bits]

None == [kind |-> "None", neg |-> FALSE, bits |-> <<>>]

Raise(exc) == [kind |-> exc, neg |-> FALSE, bits |-> <<>>]

IsInt(v) == v.kind = "int"

IsNone(v) == v.kind = "None"

IsExc(v) == ~IsInt(v) /\ ~IsNone(v)

SignBit(x) == IF x.neg THEN 1 ELSE 0

\* bit i (from 0) of the two's complement expansion of x
BitAt(x, i) == IF i < Len(x.bits) THEN x.bits[i + 1] ELSE SignBit(x)

\* the length of bits[1..n] without the copies of the sign bit s on top
RECURSIVE TopLen(_, _, _)
TopLen(bits, n, s) ==
    IF n = 0 \/ bits[n] # s THEN n ELSE TopLen(bits, n - 1, s)

Norm(neg, bits) ==
    MkInt(neg, SubSeq(bits, 1, TopLen(bits, Len(bits), IF neg THEN 1 ELSE 0)))

MaxLen(x, y) == IF Len(x.bits) > Len(y.bits) THEN Len(x.bits) ELSE Len(y.bits)

\* a hexadecimal literal of the source, digits most significant first
HexDigit(d) == <<d % 2, (d \div 2) % 2, (d \div 4) % 2, (d \div 8) % 2>>

RECURSIVE HexLE(_)
HexLE(ds) ==
    IF ds = <<>> THEN <<>>
    ELSE HexDigit(ds[Len(ds)]) \o HexLE(SubSeq(ds, 1, Len(ds) - 1))

Hex(ds) == Norm(FALSE, HexLE(ds))

\* x & y, x | y, x ^ y, ~x on integers
IntAnd(x, y) ==
    Norm(x.neg /\ y.neg,
         [i \in 1..MaxLen(x, y) |-> IF BitAt(x, i - 1) = 1 /\ BitAt(y, i - 1) = 1 THEN 1 ELSE 0])

IntOr(x, y) ==
    Norm(x.neg \/ y.neg,
         [i \in 1..MaxLen(x, y) |-> IF BitAt(x, i - 1) = 1 \/ BitAt(y, i - 1) = 1 THEN 1 ELSE 0])

IntXor(x, y) ==
    Norm(x.neg # y.neg,
         [i \in 1..MaxLen(x, y) |-> IF BitAt(x, i - 1) # BitAt(y, i - 1) THEN 1 ELSE 0])

IntInvert(x) == MkInt(~x.neg, [i \in 1..Len(x.bits) |-> 1 - x.bits[i]])

\* bits i..n of x + y + c, ripple carry; bit n is the sign of the sum
RECURSIVE SumBits(_, _, _, _, _)
SumBits(x, y, i, n, c) ==
    IF i > n THEN <<>>
    ELSE LET t == BitAt(x, i) + BitAt(y, i) + c
         IN  <<t % 2>> \o SumBits(x, y, i + 1, n, t \div 2)

IntAddC(x, y, c) ==
    LET n == MaxLen(x, y) + 1
        s == SumBits(x, y, 0, n, c)
    IN  Norm(s[n + 1] = 1, SubSeq(s, 1, n))

IntAdd(x, y) == IntAddC(x, y, 0)

IntSub(x, y) == IntAddC(x, IntInvert(y), 1)

\* the value of a small non-negative integer as a number of the model
RECURSIVE BitsNat(_)
BitsNat(bits) ==
    IF bits = <<>> THEN 0 ELSE bits[1] + 2 * BitsNat(SubSeq(bits, 2, Len(bits)))

IsSmall(x) == ~x.neg /\ Len(x.bits) <= 16

ToNat(x) == BitsNat(x.bits)

IntShl(x, n) == Norm(x.neg, [i \in 1..n |-> 0] \o x.bits)

IntShr(x, n) == Norm(x.neg, SubSeq(x.bits, n + 1, Len(x.bits)))

-----------------------------------------------------------------------------
(* Python's operators on values: an operand that raised propagates, left   *)
(* operand first; an operand that is not an integer is a TypeError.        *)

Bin(a, b, r) ==
    IF IsExc(a) THEN a
    ELSE IF IsExc(b) THEN b
    ELSE IF ~IsInt(a) \/ ~IsInt(b) THEN Raise("TypeError")
    ELSE r

PyAnd(a, b) == Bin(a, b, IntAnd(a, b))

PyOr(a, b) == Bin(a, b, IntOr(a, b))

PyXor(a, b) == Bin(a, b, IntXor(a, b))

PyAdd(a, b) == Bin(a, b, IntAdd(a, b))

PySub(a, b) == Bin(a, b, IntSub(a, b))

PyInvert(a) == IF IsExc(a) THEN a ELSE IF ~IsInt(a) THEN Raise("TypeError") ELSE IntInvert(a)

\* a negative shift count is a ValueError
PyLShift(a, b) == Bin(a, b, IF b.neg THEN Raise("ValueError") ELSE IntShl(a, ToNat(b)))

PyRShift(a, b) == Bin(a, b, IF b.neg THEN Raise("ValueError") ELSE IntShr(a, ToNat(b)))

-----------------------------------------------------------------------------
(* class AsmDec.  A size is a tuple of one-character tags; Omitted is a    *)
(* call that passes no size and takes the parameter's default.             *)

Omitted == <<>>

Default(size, dflt) == IF size = Omitted THEN dflt ELSE size

\* the integer literals of the class
Lit_0xFF == Hex(<<15, 15>>)

Lit_0xFF00 == Hex(<<15, 15, 0, 0>>)

Lit_0xFFFF == Hex(<<15, 15, 15, 15>>)

Lit_0xFFFFFFFF == Hex(<<15, 15, 15, 15, 15, 15, 15, 15>>)

Lit_0xFFFFFFFFFFFFFFFF ==
    Hex(<<15, 15, 15, 15, 15, 15, 15, 15, 15, 15, 15, 15, 15, 15, 15, 15>>)

Lit_8 == Hex(<<8>>)

Lit_1 == Hex(<<1>>)

\* _get_size with a digit dropped from the dword mask
_get_size_short_dword(value, size) ==
    IF IsExc(value) THEN value
    ELSE IF size = "l" THEN PyAnd(value, Lit_0xFF)
    ELSE IF size = "h" THEN PyRShift(PyAnd(value, Lit_0xFF00), Lit_8)
    ELSE IF size = "w" THEN PyAnd(value, Lit_0xFFFF)
    ELSE IF size = "d" THEN PyAnd(value, Hex(<<15, 15, 15, 15, 15, 15, 15>>))
    ELSE IF size = "q" THEN PyAnd(value, Lit_0xFFFFFFFFFFFFFFFF)
    ELSE None

\* _get_size with the high byte shifted down but not masked
_get_size_high_unmasked(value, size) ==
    IF IsExc(value) THEN value
    ELSE IF size = "l" THEN PyAnd(value, Lit_0xFF)
    ELSE IF size = "h" THEN PyRShift(value, Lit_8)
    ELSE IF size = "w" THEN PyAnd(value, Lit_0xFFFF)
    ELSE IF size = "d" THEN PyAnd(value, Lit_0xFFFFFFFF)
    ELSE IF size = "q" THEN PyAnd(value, Lit_0xFFFFFFFFFFFFFFFF)
    ELSE None

\* The operands are integers (or what a call returned), never str, so the
\* conversion of lines 51-52 is not taken.  A value that is the raise of the
\* argument expression goes up unchanged; a tag that matches no if returns None.
_get_size(value, size) ==
    IF IsExc(value) THEN value
    ELSE IF size = "l" THEN PyAnd(value, Lit_0xFF)
    ELSE IF size = "h" THEN PyRShift(PyAnd(value, Lit_0xFF00), Lit_8)
    ELSE IF size = "w" THEN PyAnd(value, Lit_0xFFFF)
    ELSE IF size = "d" THEN PyAnd(value, Lit_0xFFFFFFFF)
    ELSE IF size = "q" THEN PyAnd(value, Lit_0xFFFFFFFFFFFFFFFF)
    ELSE None

\* size[i] of the source (i from 0) exists
HasTag(size, i) == i < Len(size)

_parse1(op1, size) ==
    IF ~HasTag(size, 0) THEN Raise("IndexError")
    ELSE _get_size(op1, size[1])

\* _parse2 with both operands resized by the first tag
_parse2_first_tag(op1, op2, size) ==
    IF ~HasTag(size, 0) \/ ~HasTag(size, 1) THEN <<Raise("IndexError"), Raise("IndexError")>>
    ELSE LET temp_op1 == _get_size(op1, size[1])
             temp_op2 == _get_size(op2, size[1])
         IN  IF IsExc(temp_op1) THEN <<temp_op1, temp_op1>>
             ELSE IF IsExc(temp_op2) THEN <<temp_op2, temp_op2>>
             ELSE <<temp_op1, temp_op2>>

\* the pair (temp_op1, temp_op2); a raise is carried in both places
_parse2(op1, op2, size) ==
    IF ~HasTag(size, 0) \/ ~HasTag(size, 1) THEN <<Raise("IndexError"), Raise("IndexError")>>
    ELSE LET temp_op1 == _get_size(op1, size[1])
             temp_op2 == _get_size(op2, size[2])
         IN  IF IsExc(temp_op1) THEN <<temp_op1, temp_op1>>
             ELSE IF IsExc(temp_op2) THEN <<temp_op2, temp_op2>>
             ELSE <<temp_op1, temp_op2>>

\* size has no default: a call without it is a TypeError
FORMAT(op1, size) ==
    IF size = Omitted THEN Raise("TypeError")
    ELSE _get_size(op1, size[1])

HIGHBYTE(value) == PyLShift(value, Lit_8)

XOR(op1, op2, size) ==
    LET sz == Default(size, <<"d", "d">>)
        p == _parse2(op1, op2, sz)
    IN  _get_size(PyXor(p[1], p[2]), sz[1])

OR(op1, op2, size) ==
    LET sz == Default(size, <<"d", "d">>)
        p == _parse2(op1, op2, sz)
    IN  _get_size(PyOr(p[1], p[2]), sz[1])

AND(op1, op2, size) ==
    LET sz == Default(size, <<"d", "d">>)
        p == _parse2(op1, op2, sz)
    IN  _get_size(PyAnd(p[1], p[2]), sz[1])

ROL(op1, op2, size) ==
    LET sz == Default(size, <<"d", "d">>)
        p == _parse2(op1, op2, sz)
        temp == PyAnd(PyOr(PyLShift(p[1], p[2]),
                           PyRShift(p[1], PySub(Lit_8, p[2]))),
                      Lit_0xFF)
    IN  _get_size(temp, sz[1])

\* ROR with the shift directions of ROL left in place
ROR_as_ROL(op1, op2, size) == ROL(op1, op2, size)

ROR(op1, op2, size) ==
    LET sz == Default(size, <<"d", "d">>)
        p == _parse2(op1, op2, sz)
        temp == PyAnd(PyOr(PyRShift(p[1], p[2]),
                           PyLShift(p[1], PySub(Lit_8, p[2]))),
                      Lit_0xFF)
    IN  _get_size(temp, sz[1])

SHR(op1, op2, size) ==
    LET sz == Default(size, <<"d", "d">>)
        p == _parse2(op1, op2, sz)
    IN  _get_size(PyRShift(p[1], p[2]), sz[1])

SHL(op1, op2, size) ==
    LET sz == Default(size, <<"d", "d">>)
        p == _parse2(op1, op2, sz)
    IN  _get_size(PyLShift(p[1], p[2]), sz[1])

INC(op1, size) ==
    LET sz == Default(size, <<"d", "d">>)
        t == PyAdd(_parse1(op1, sz), Lit_1)
    IN  _get_size(t, sz[1])

DEC(op1, size) ==
    LET sz == Default(size, <<"d", "d">>)
        t == PySub(_parse1(op1, sz), Lit_1)
    IN  _get_size(t, sz[1])

NEG(op1, size) ==
    LET sz == Default(size, <<"d", "d">>)
        t == _parse1(op1, sz)
    IN  _get_size(PyAdd(PyInvert(t), Lit_1), sz[1])

NOT(op1, size) ==
    LET sz == Default(size, <<"d", "d">>)
        t == _parse1(op1, sz)
    IN  _get_size(PyInvert(t), sz[1])

ADD(op1, op2, size) ==
    LET sz == Default(size, <<"d", "d">>)
        p == _parse2(op1, op2, sz)
    IN  _get_size(PyAdd(p[1], p[2]), sz[1])

SUB(op1, op2, size) ==
    LET sz == Default(size, <<"d", "d">>)
        p == _parse2(op1, op2, sz)
    IN  _get_size(PySub(p[1], p[2]), sz[1])

-----------------------------------------------------------------------------
(* The calls of a decoder.  arg1, arg2 and argsize are the values the      *)
(* caller holds; fn is the method it called last and ret what that call    *)
(* gave.  Calls nest once, as in a.AND(a.ADD(cc, count, "dd"), 3, "dd") and *)
(* a.ADD(0xAABBCCDD, a.HIGHBYTE(0x22)) of the module's docstring: the      *)
(* value a call returned is the first operand of the next call, and the    *)
(* value HIGHBYTE returned is the second.  prev is the inner call.         *)

MaxShift == 70

Tags == {"l", "h", "w", "d", "q"}

Sizes ==
    {<<t>> : t \in Tags} \cup {<<s, t>> : s \in Tags, t \in Tags}
    \cup {<<"x", "d">>, <<"d", "x">>} \cup {Omitted}

\* first operands: 0, 0xAABBCCDD, 0x123456789ABCDEF01 (65 bits), -0x100
Values1 ==
    { Hex(<<0>>),
      Hex(<<10, 10, 11, 11, 12, 12, 13, 13>>),
      Hex(<<1, 2, 3, 4, 5, 6, 7, 8, 9, 10, 11, 12, 13, 14, 15, 0, 1>>),
      IntSub(Hex(<<0>>), Hex(<<1, 0, 0>>)) }

\* second operands: 3, 7, 9, 0x22, 0x44, 0xFFFFFFFFFFFFFFFF
Values2 ==
    { Hex(<<3>>), Hex(<<7>>), Hex(<<9>>), Hex(<<2, 2>>), Hex(<<4, 4>>),
      Lit_0xFFFFFFFFFFFFFFFF }

Init ==
    /\ arg1 \in Values1
    /\ arg2 \in Values2
    /\ argsize \in Sizes
    /\ fn = ""
    /\ prev = ""
    /\ ret = None

First == IF fn \in {"", "HIGHBYTE"} THEN arg1 ELSE ret

Second == IF fn = "HIGHBYTE" THEN ret ELSE arg2

\* a call is made when no exception is on its way up and the nesting allows
CanCall == prev = "" /\ ~IsExc(ret)

\* the shift count a two-operand call will use stays within the model
CountOK ==
    LET sz == Default(argsize, <<"d", "d">>)
        p == _parse2(First, Second, sz)
    IN  IsInt(p[2]) => IsSmall(p[2]) /\ ToNat(p[2]) <= MaxShift

Return(name, value) ==
    /\ fn' = name
    /\ prev' = fn
    /\ ret' = value
    /\ UNCHANGED <<arg1, arg2, argsize>>

CallFORMAT == CanCall /\ Return("FORMAT", FORMAT(First, argsize))

CallHIGHBYTE == CanCall /\ fn = "" /\ Return("HIGHBYTE", HIGHBYTE(arg2))

CallXOR == CanCall /\ Return("XOR", XOR(First, Second, argsize))

CallOR == CanCall /\ Return("OR", OR(First, Second, argsize))

CallAND == CanCall /\ Return("AND", AND(First, Second, argsize))

CallROL == CanCall /\ CountOK /\ Return("ROL", ROL(First, Second, argsize))

CallROR == CanCall /\ CountOK /\ Return("ROR", ROR(First, Second, argsize))

CallSHR == CanCall /\ CountOK /\ Return("SHR", SHR(First, Second, argsize))

CallSHL == CanCall /\ CountOK /\ Return("SHL", SHL(First, Second, argsize))

CallINC == CanCall /\ Return("INC", INC(First, argsize))

CallDEC == CanCall /\ Return("DEC", DEC(First, argsize))

CallNEG == CanCall /\ Return("NEG", NEG(First, argsize))

CallNOT == CanCall /\ Return("NOT", NOT(First, argsize))

CallADD == CanCall /\ Return("ADD", ADD(First, Second, argsize))

CallSUB == CanCall /\ Return("SUB", SUB(First, Second, argsize))

Next ==
    \/ CallFORMAT
    \/ CallHIGHBYTE
    \/ CallXOR
    \/ CallOR
    \/ CallAND
    \/ CallROL
    \/ CallROR
    \/ CallSHR
    \/ CallSHL
    \/ CallINC
    \/ CallDEC
    \/ CallNEG
    \/ CallNOT
    \/ CallADD
    \/ CallSUB

Spec == Init /\ [][Next]_vars

-----------------------------------------------------------------------------
(* The vocabulary of the claims, stated on integers and not on masks.      *)

Bits(t) == CASE t = "l" -> 8 [] t = "h" -> 8 [] t = "w" -> 16 [] t = "d" -> 32 [] t = "q" -> 64

\* v mod 2^k
Mod2(v, k) == Norm(FALSE, [i \in 1..k |-> BitAt(v, i - 1)])

\* the resolver as the specification words it
Resolve(v, t) == IF t = "h" THEN Mod2(IntShr(v, 8), 8) ELSE Mod2(v, Bits(t))

\* the plain formula of a two-operand operation
Formula(name, x, y) ==
    CASE name = "XOR" -> IntXor(x, y)
      [] name = "OR" -> IntOr(x, y)
      [] name = "AND" -> IntAnd(x, y)
      [] name = "ADD" -> IntAdd(x, y)
      [] name = "SUB" -> IntSub(x, y)
      [] name = "SHL" -> IntShl(x, ToNat(y))
      [] name = "SHR" -> IntShr(x, ToNat(y))

\* the byte x rotated left, right by n places
RotL8(x, n) == Norm(FALSE, [i \in 1..8 |-> BitAt(x, (i - 1 - n) % 8)])

RotR8(x, n) == Norm(FALSE, [i \in 1..8 |-> BitAt(x, (i - 1 + n) % 8)])

\* the dword v with bits 8-15 replaced by the byte x
WithHighByte(v, x) ==
    Norm(FALSE, [i \in 1..32 |-> IF i \in 9..16 THEN BitAt(x, i - 9) ELSE BitAt(v, i - 1)])

Plain == {"XOR", "OR", "AND", "ADD", "SUB", "SHL", "SHR"}

Operations == Plain \cup {"ROL", "ROR", "INC", "DEC", "NEG", "NOT"}

\* the tags that mask and do not move
Masks == Tags \ {"h"}

\* the last call was made on the caller's own two values
Direct == fn # "" /\ prev = ""

\* the specifier of the last call, the default filled in
SizeUsed == IF argsize = Omitted THEN <<"d", "d">> ELSE argsize

TwoTags == Len(SizeUsed) = 2 /\ SizeUsed[1] \in Tags /\ SizeUsed[2] \in Tags

SameTags == TwoTags /\ SizeUsed[1] = SizeUsed[2]

IsCount(v) == IsSmall(v) /\ ToNat(v) <= 7

x0 == Hex(<<0>>)

xAABBCCDD == Hex(<<10, 10, 11, 11, 12, 12, 13, 13>>)

-----------------------------------------------------------------------------
\* C1: FORMAT(v, t) is v mod 2^bits(t) for t in {l, w, d, q}, and for t = h it is
\* bits 8-15 of v moved down to bits 0-7, for every integer v.
C1_FormatIsModulo ==
    (Direct /\ fn = "FORMAT" /\ argsize # Omitted /\ argsize[1] \in Tags) =>
        ret = IF argsize[1] = "h" THEN Mod2(IntShr(arg1, 8), 8)
              ELSE Mod2(arg1, Bits(argsize[1]))

\* FORMAT(0xAABBCCDD, 'h') returned 0xCC
C1_Witness ==
    /\ Direct /\ fn = "FORMAT" /\ argsize = <<"h">>
    /\ arg1 = xAABBCCDD /\ ret = Hex(<<12, 12>>)

\* C2: a two-operand operation returns resolve(f(resolve(a, t0), resolve(b, t1)), t0):
\* each operand masked by its own tag, the result truncated by the first tag alone,
\* and no specifier means "dd".
C2_FirstTagGoverns ==
    (Direct /\ fn \in Plain /\ TwoTags) =>
        ret = Resolve(Formula(fn, Resolve(arg1, SizeUsed[1]), Resolve(arg2, SizeUsed[2])),
                      SizeUsed[1])

\* ADD(0xAABBCCDD, 0x44, "ld") returned (0xDD + 0x44) mod 2^8 = 0x21
C2_Witness ==
    /\ Direct /\ fn = "ADD" /\ argsize = <<"l", "d">>
    /\ arg1 = xAABBCCDD /\ arg2 = Hex(<<4, 4>>) /\ ret = Hex(<<2, 1>>)

\* C3: with a tag outside {l, h, w, d, q}, FORMAT returns the value unmasked and an
\* operation returns the unmasked result of its formula, without raising.
C3_UnknownTagPassesThrough ==
    /\ (Direct /\ fn = "FORMAT" /\ argsize # Omitted /\ argsize[1] \notin Tags) => ret = arg1
    /\ (Direct /\ fn \in Plain /\ Len(SizeUsed) = 2 /\ ~TwoTags) =>
          /\ IsInt(ret)
          /\ LET u1 == IF SizeUsed[1] \in Tags THEN Resolve(arg1, SizeUsed[1]) ELSE arg1
                 u2 == IF SizeUsed[2] \in Tags THEN Resolve(arg2, SizeUsed[2]) ELSE arg2
                 r == Formula(fn, u1, u2)
             IN  ret = IF SizeUsed[1] \in Tags THEN Resolve(r, SizeUsed[1]) ELSE r

\* C4: no operation raises: with a two-tag specifier over {l, h, w, d, q}, or none,
\* every call of XOR, OR, AND, ADD, SUB, SHL, SHR, ROL, ROR, INC, DEC, NEG and NOT
\* returns an integer, ROL and ROR with a count above 8 included.
C4_NeverRaises == (Direct /\ fn \in Operations /\ TwoTags) => IsInt(ret)

\* C5 as stated: FORMAT(FORMAT(v, t), t) = FORMAT(v, t) for every tag, h included.
C5_Idempotent ==
    (fn = "FORMAT" /\ prev = "FORMAT" /\ argsize[1] \in Tags) => ret = FORMAT(arg1, argsize)

\* C5, amended: FORMAT(FORMAT(v, t), t) = FORMAT(v, t) for t in {l, w, d, q}; for
\* t = h the second FORMAT returns 0 whatever v is.
C5_IdempotentButHigh ==
    (fn = "FORMAT" /\ prev = "FORMAT" /\ argsize[1] \in Tags) =>
        ret = IF argsize[1] = "h" THEN x0 ELSE FORMAT(arg1, argsize)

\* FORMAT(FORMAT(0xAABBCCDD, 'w'), 'w') returned 0xCCDD
C5_Witness ==
    /\ fn = "FORMAT" /\ prev = "FORMAT" /\ argsize = <<"w">>
    /\ arg1 = xAABBCCDD /\ ret = Hex(<<12, 12, 13, 13>>)

\* C6: FORMAT(SUB(ADD(a, b, tt), b, tt), t) = FORMAT(a, t) for every tag t.
C6_SubUndoesAdd ==
    (fn = "SUB" /\ prev = "ADD" /\ SameTags) =>
        FORMAT(ret, <<SizeUsed[1]>>) = FORMAT(arg1, <<SizeUsed[1]>>)

\* C7: ROR(ROL(v, n, "ll"), n, "ll") = FORMAT(v, 'l') for 0 <= n <= 7.
C7_RorUndoesRol ==
    (fn = "ROR" /\ prev = "ROL" /\ argsize = <<"l", "l">> /\ IsCount(arg2)) =>
        ret = FORMAT(arg1, <<"l">>)

\* ROR(ROL(0xAABBCCDD, 3, "ll"), 3, "ll") returned 0xDD
C7_Witness ==
    /\ fn = "ROR" /\ prev = "ROL" /\ argsize = <<"l", "l">>
    /\ arg1 = xAABBCCDD /\ arg2 = Hex(<<3>>) /\ ret = Hex(<<13, 13>>)

\* C8: under every two-tag specifier and every count 0 <= op2 <= 7, ROL (ROR) returns
\* the low 8 bits of op1 rotated left (right) by op2 places, truncated by the first
\* tag; the bits of op1 above bit 7 have no influence.  Stated on the tags l, w, d
\* and q, under which the count is op2 itself and the truncation keeps the byte.
C8_RotatesLowByte ==
    (Direct /\ fn \in {"ROL", "ROR"} /\ TwoTags /\ IsCount(arg2)
        /\ SizeUsed[1] \in Masks /\ SizeUsed[2] \in Masks) =>
        ret = Resolve(IF fn = "ROL" THEN RotL8(Mod2(arg1, 8), ToNat(arg2))
                      ELSE RotR8(Mod2(arg1, 8), ToNat(arg2)),
                      SizeUsed[1])

\* C9: for a dword v and a byte b, ADD(v, HIGHBYTE(b), "dd") is v with bits 8-15
\* replaced by (FORMAT(v, 'h') + b) mod 256 and every other bit unchanged.
C9_HighByteWrite ==
    (fn = "ADD" /\ prev = "HIGHBYTE" /\ SizeUsed = <<"d", "d">>
        /\ ~arg1.neg /\ Len(arg1.bits) <= 32 /\ ~arg2.neg /\ Len(arg2.bits) <= 8) =>
        ret = WithHighByte(arg1, Mod2(IntAdd(FORMAT(arg1, <<"h">>), arg2), 8))

\* C10: NEG(v, t) = (-FORMAT(v, t)) mod 2^bits(t), DEC(v, t) = (FORMAT(v, t) - 1) mod
\* 2^bits(t) and SUB(v, b, tt) = (FORMAT(v, t) - FORMAT(b, t)) mod 2^bits(t), for
\* every tag t, with bits(h) = 8.
C10_TwosComplementWrap ==
    /\ (Direct /\ fn = "NEG" /\ SizeUsed[1] \in Tags) =>
          ret = Mod2(IntSub(x0, FORMAT(arg1, <<SizeUsed[1]>>)), Bits(SizeUsed[1]))
    /\ (Direct /\ fn = "DEC" /\ SizeUsed[1] \in Tags) =>
          ret = Mod2(IntSub(FORMAT(arg1, <<SizeUsed[1]>>), Hex(<<1>>)), Bits(SizeUsed[1]))
    /\ (Direct /\ fn = "SUB" /\ SameTags) =>
          ret = Mod2(IntSub(FORMAT(arg1, <<SizeUsed[1]>>), FORMAT(arg2, <<SizeUsed[1]>>)),
                     Bits(SizeUsed[1]))

=============================================================================
